---- MODULE Spec2Model ----
(***************************************************************************)
(* discopeer: a peer discovery service (src/server.js) with an optional    *)
(* snapshot of the peer cache (src/persistence.js).                        *)
(*                                                                         *)
(* The state is the LRU cache of peer groups (peerCache), the map of       *)
(* WebSocket subscriptions (hashSubscriptions), the WebSocket connections  *)
(* with the hash each handler closure holds (subscribedHash), the snapshot *)
(* file, and the clock.  Node runs every handler to completion on one      *)
(* thread, so each handler is one action.  The variables res and sent      *)
(* record what the last handler answered and what it sent to each          *)
(* WebSocket.                                                              *)
(***************************************************************************)
EXTENDS Integers, Sequences, FiniteSets, TLC

(***************************************************************************)
(* Bounds of the model: the HTTP requests, WebSocket events and advances   *)
(* of the clock of a behaviour, per specification.  The rate limiter       *)
(* (server.js 27-31: 100 requests per address in 15 minutes) is never      *)
(* reached by so few requests, so no request is answered 429.              *)
(***************************************************************************)
MaxOps == 3          \* HTTP requests handled in a behaviour of Spec
MaxWs == 2           \* WebSocket events handled in a behaviour of Spec
MaxTicks == 1        \* advances of the clock in a behaviour of Spec
FanoutOps == 1       \* the same three for SpecFanout, which has two groups
FanoutWs == 4
FanoutTicks == 1
ClockOps == 3        \* and for SpecClock, whose clock also advances by half a second
ClockWs == 2
ClockTicks == 1
PushOps == 4
PushWs == 2
PushTicks == 1
IdentityOps == 3     \* and for SpecIdentity, whose requests come from two addresses
IdentityWs == 2
IdentityTicks == 1
GroupsOps == 3       \* and for SpecGroups, whose requests go to two groups
GroupsWs == 2
GroupsTicks == 1
PersistenceOps == 3  \* and for SpecPersistence, which saves and loads the snapshot
PersistenceWs == 2
PersistenceTicks == 1
ObserversOps == 2    \* and for SpecObservers, whose group has two observers
ObserversWs == 5
ObserversTicks == 1

(***************************************************************************)
(* Program constants.                                                      *)
(***************************************************************************)
DefaultTTL == 300
GlobalMaxAge == 86400000

Hashes == {"h1", "h2"}
Conns == {"w1", "w2"}
Deltas == {299999, 300000}
ClockDeltas == {500, 299999, 300000}

(***************************************************************************)
(* JavaScript values.  Every value is a record of one shape: t is what     *)
(* typeof distinguishes (with null apart from object), n the payload of a  *)
(* number or boolean, s the payload of a string, the name of an object, or *)
(* the tag of a number that is not finite.                                 *)
(***************************************************************************)
Undef == [t |-> "undefined", n |-> 0, s |-> ""]
Null == [t |-> "null", n |-> 0, s |-> ""]
Num(k) == [t |-> "number", n |-> k, s |-> ""]
NaN == [t |-> "number", n |-> 0, s |-> "NaN"]
NegInfinity == [t |-> "number", n |-> 0, s |-> "-Infinity"]
Str(x) == [t |-> "string", n |-> 0, s |-> x]
Bool(b) == [t |-> "boolean", n |-> IF b THEN 1 ELSE 0, s |-> ""]
Obj(x) == [t |-> "object", n |-> 0, s |-> x]

IsFinite(v) == v.t = "number" /\ v.s = ""

\* typeof v
TypeOf(v) == IF v.t = "null" THEN "object" ELSE v.t

\* ToBoolean(v): what `if (v)`, `!v`, `v || w` and `v && w` test
Truthy(v) ==
  CASE v.t = "undefined" -> FALSE
    [] v.t = "null" -> FALSE
    [] v.t = "boolean" -> v.n = 1
    [] v.t = "number" -> IF v.s = "" THEN v.n # 0 ELSE v.s # "NaN"
    [] v.t = "string" -> v.s # ""
    [] OTHER -> TRUE

\* ToNumber(v); the strings of this model are the empty one and words
ToNumber(v) ==
  CASE v.t = "undefined" -> NaN
    [] v.t = "null" -> Num(0)
    [] v.t = "boolean" -> Num(v.n)
    [] v.t = "number" -> v
    [] v.t = "string" -> IF v.s = "" THEN Num(0) ELSE NaN
    [] OTHER -> NaN

\* a - b
Minus(a, b) ==
  LET x == ToNumber(a)
      y == ToNumber(b)
  IN IF IsFinite(x) /\ IsFinite(y) THEN Num(x.n - y.n)
     ELSE IF x = NaN \/ y = NaN THEN NaN
     ELSE IF x = NegInfinity /\ IsFinite(y) THEN NegInfinity
     ELSE NaN

\* a * k, for a finite k > 0
Times(a, k) ==
  LET x == ToNumber(a)
  IN IF IsFinite(x) THEN Num(x.n * k) ELSE x

\* a < b
LessThan(a, b) ==
  LET x == ToNumber(a)
      y == ToNumber(b)
  IN IF x = NaN \/ y = NaN THEN FALSE
     ELSE IF y = NegInfinity THEN FALSE
     ELSE IF x = NegInfinity THEN TRUE
     ELSE x.n < y.n

\* Math.round(a / 1000): the nearest integer, a half rounding up
RoundDiv1000(a) ==
  LET x == ToNumber(a)
  IN IF IsFinite(x) THEN Num((x.n + 500) \div 1000) ELSE x

RECURSIVE MaxFrom(_, _)
MaxFrom(xs, best) ==
  IF xs = <<>> THEN best
  ELSE LET x == ToNumber(Head(xs))
       IN IF x = NaN \/ best = NaN THEN NaN
          ELSE IF LessThan(best, x) THEN MaxFrom(Tail(xs), x)
          ELSE MaxFrom(Tail(xs), best)

\* Math.max(...xs): -Infinity of no argument, NaN when an argument is NaN
MathMax(xs) == MaxFrom(xs, NegInfinity)

(***************************************************************************)
(* Maps (Map, the LRU cache, a parsed JSON object) are functions whose     *)
(* domain is the set of keys held.                                         *)
(***************************************************************************)
EmptyMap == <<>>
Put(f, k, v) == [x \in DOMAIN f \cup {k} |-> IF x = k THEN v ELSE f[x]]
Remove(f, k) == [x \in DOMAIN f \ {k} |-> f[x]]

(***************************************************************************)
(* A peer object has the properties of peerData (server.js 206-214) and of *)
(* the public view filterActivePeers builds (125-132); a property an       *)
(* object does not have reads as undefined.                                *)
(***************************************************************************)
peerData(name, endpoint, ttl, metadata, peerId, sourceAddress, registeredAt) ==
  [name |-> name, endpoint |-> endpoint, ttl |-> ttl, metadata |-> metadata,
   peerId |-> peerId, sourceAddress |-> sourceAddress,
   registeredAt |-> registeredAt, age |-> Undef]

\* the filter with <= for <
isActiveInclusive(peer, t) ==
  \/ LessThan(Minus(Num(t), peer.registeredAt), Times(peer.ttl, 1000))
  \/ /\ IsFinite(peer.registeredAt) /\ IsFinite(peer.ttl)
     /\ Minus(Num(t), peer.registeredAt) = Times(peer.ttl, 1000)

\* the predicate of the filter: age < peer.ttl * 1000, age = now - peer.registeredAt
isActive(peer, t) == LessThan(Minus(Num(t), peer.registeredAt), Times(peer.ttl, 1000))

\* the object the map step builds: no ttl, no registeredAt, and an age
publicView(peer, t) ==
  [name |-> peer.name, endpoint |-> peer.endpoint, ttl |-> Undef,
   metadata |-> peer.metadata, peerId |-> peer.peerId,
   sourceAddress |-> peer.sourceAddress, registeredAt |-> Undef,
   age |-> RoundDiv1000(Minus(Num(t), peer.registeredAt))]

\* filterActivePeers(peers), with Date.now() = t
filterActivePeers(peers, t) ==
  LET kept == SelectSeq(peers, LAMBDA p : isActive(p, t))
  IN [i \in 1..Len(kept) |-> publicView(kept[i], t)]

\* JSON.stringify of a number: NaN and the infinities print as null
jsonNumber(v) == IF v.t = "number" /\ v.s # "" THEN Null ELSE v

\* JSON.stringify of a peer: a property that is undefined is left out, so
\* the text carries the six properties below when the peer is a public view
jsonPeer(peer) ==
  [name |-> peer.name, endpoint |-> peer.endpoint,
   sourceAddress |-> peer.sourceAddress, peerId |-> peer.peerId,
   metadata |-> peer.metadata, age |-> jsonNumber(peer.age)]

jsonPeers(peers) == [i \in 1..Len(peers) |-> jsonPeer(peers[i])]

\* the message with every peer given, expired or not
peersMessageUnfiltered(peers, t) ==
  [type |-> "peers", peers |-> jsonPeers([i \in 1..Len(peers) |-> publicView(peers[i], t)])]

\* JSON.stringify({ type: 'peers', peers: filterActivePeers(peers) })
peersMessage(peers, t) == [type |-> "peers", peers |-> jsonPeers(filterActivePeers(peers, t))]

\* Math.max(...peers.map(peer => peer.ttl)) * 1000
maxTTLms(peers) == Times(MathMax([i \in 1..Len(peers) |-> peers[i].ttl]), 1000)

(***************************************************************************)
(* The lru-cache (server.js 34-38).  An entry keeps the value, the max age *)
(* given to set and the time of the set.  Which release of lru-cache is    *)
(* installed is not fixed by the sources: a release that takes set's third *)
(* argument as the entry's max age (maxAge || the cache's maxAge) drops an *)
(* entry older than that on get; one that does not ages every entry by the *)
(* cache's maxAge alone.  The releases of the first kind count their       *)
(* entries in itemCount and have no size property; those of the second     *)
(* have size.  max: 10000 is never reached by Hashes.                      *)
(***************************************************************************)
entryMaxAge(e, positional) ==
  IF positional /\ Truthy(e.maxAge) THEN e.maxAge ELSE Num(GlobalMaxAge)

isStale(e, positional, t) == LessThan(entryMaxAge(e, positional), Num(t - e.now))

\* whether cache.get(key) finds a value
cacheHas(cache, positional, key, t) ==
  key \in DOMAIN cache /\ ~isStale(cache[key], positional, t)

\* peerCache.get(key) || []
cacheGet(cache, positional, key, t) ==
  IF cacheHas(cache, positional, key, t) THEN cache[key].value ELSE <<>>

\* the cache after get(key): a stale entry is deleted by the get that meets it
cacheAfterGet(cache, positional, key, t) ==
  IF key \in DOMAIN cache /\ isStale(cache[key], positional, t)
  THEN Remove(cache, key) ELSE cache

\* peerCache.set(key, value, maxAge)
cacheSet(cache, key, value, maxAge, t) ==
  Put(cache, key, [value |-> value, maxAge |-> maxAge, now |-> t])

\* peerCache.del(key)
cacheDel(cache, key) == Remove(cache, key)

(***************************************************************************)
(* notifyPeerChange(hash, peers): what each connection is sent.            *)
(***************************************************************************)
\* the loop stopped by a socket that is not open: all are sent to, or none
notifyPeerChangeAllOrNone(subs, connections, hash, peers, t) ==
  [w \in Conns |->
     IF hash \in DOMAIN subs /\ w \in subs[hash]
        /\ \A v \in subs[hash] : connections[v].readyState = "OPEN"
     THEN <<peersMessage(peers, t)>>
     ELSE <<>>]

notifyPeerChange(subs, connections, hash, peers, t) ==
  [w \in Conns |->
     IF hash \in DOMAIN subs /\ w \in subs[hash] /\ connections[w].readyState = "OPEN"
     THEN <<peersMessage(peers, t)>>
     ELSE <<>>]

NoneSent == [w \in Conns |-> <<>>]

(***************************************************************************)
(* getClientAddress(req) for a request with no x-forwarded-for header and  *)
(* a plain IPv4 remote address, and generateDeterministicPeerId: the first *)
(* 32 hex digits of the SHA-256 of the joined text, taken as free of       *)
(* collisions on the texts of this model.                                  *)
(***************************************************************************)
getClientAddress(socket) == socket.remoteAddress \o ":" \o socket.remotePort

generateDeterministicPeerId(name, endpoint, sourceAddress) ==
  "sha256(" \o name \o ":" \o endpoint \o ":" \o sourceAddress \o ")"

(***************************************************************************)
(* validatePeerData: the error it answers with 400, or "" when it calls    *)
(* next().  ttl is a const binding of the destructuring at line 161, so    *)
(* the assignment at line 173 throws a TypeError for every ttl that passes *)
(* `if (ttl)`, and the catch at line 177 answers 'Invalid TTL parameter'.  *)
(***************************************************************************)
validatePeerData(body) ==
  IF ~Truthy(body.name) \/ TypeOf(body.name) # "string" THEN "Invalid name parameter"
  ELSE IF ~Truthy(body.endpoint) \/ TypeOf(body.endpoint) # "string" THEN "Invalid endpoint parameter"
  ELSE IF Truthy(body.ttl) THEN "Invalid TTL parameter"
  ELSE IF Truthy(body.metadata) /\ TypeOf(body.metadata) # "object" THEN "Invalid metadata format"
  ELSE IF Truthy(body.peerId) /\ TypeOf(body.peerId) # "string" THEN "Invalid peerId format"
  ELSE ""


VARIABLES
  peerCache,            \* hash -> [value: the peers array, maxAge: as passed to set, now: when set]
  positionalMaxAge,     \* whether the installed lru-cache takes set's third argument as the entry's max age
  hashSubscriptions,    \* hash -> set of connections
  conn,                 \* connection -> [readyState, subscribedHash]
  snapshot,             \* the snapshot file: [exists, data: hash -> peers]
  now,                  \* Date.now(), milliseconds
  ticks,                \* advances of the clock so far
  ops,                  \* HTTP requests handled so far
  wsEvents,             \* WebSocket events handled so far
  limits,               \* how many of each this behaviour explores, with which hashes, delays, bodies, sockets
  registered,           \* hash -> the peers registered and not unsubscribed since, as the requests had them
  res,                  \* the last handler's request and response
  sent                  \* connection -> the messages the last handler sent to it

vars == <<peerCache, positionalMaxAge, hashSubscriptions, conn, snapshot, now, ticks, ops, wsEvents, limits,
          registered, res, sent>>

(***************************************************************************)
(* The requests of the model.                                              *)
(***************************************************************************)
Body(name, endpoint, ttl, metadata, peerId) ==
  [name |-> name, endpoint |-> endpoint, ttl |-> ttl, metadata |-> metadata, peerId |-> peerId]

NoBody == Body(Undef, Undef, Undef, Undef, Undef)

Bodies ==
  { Body(Str("a"), Str("e"), Undef, Undef, Undef),
    Body(Str("b"), Str("e"), Undef, Obj("m"), Str("p1")),
    Body(Str("b"), Str("e"), Num(0), Obj("m"), Str("p1")),
    Body(Str("a"), Str("e"), Num(300), Obj("m"), Undef),
    Body(Undef, Str("e"), Undef, Undef, Undef) }

\* the bodies of Bodies that validatePeerData lets through
AcceptedBodies == {b \in Bodies : validatePeerData(b) = ""}

\* the bodies of Bodies without a ttl
DefaultTtlBodies == {b \in AcceptedBodies : b.ttl = Undef}

Sockets == { [remoteAddress |-> "10.0.0.1", remotePort |-> "5000"] }

\* bodies with and without a peerId, one of them the empty string, one a number
IdentityBodies ==
  { Body(Str("a"), Str("e"), Undef, Undef, Undef),
    Body(Str("a"), Str("e"), Undef, Undef, Str("")),
    Body(Str("b"), Str("e"), Undef, Obj("m"), Str("p1")),
    Body(Str("a"), Str("e"), Undef, Undef, Num(7)) }

IdentitySockets ==
  Sockets \cup { [remoteAddress |-> "10.0.0.2", remotePort |-> "5000"] }

PeerIdParams == { "p1", generateDeterministicPeerId("a", "e", "10.0.0.1:5000") }

\* a WebSocket message: text that JSON.parse takes or throws on
WsMessages(hashes) ==
  { [parses |-> TRUE, type |-> Str("subscribe"), hash |-> Str(h)] : h \in hashes }
  \cup { [parses |-> TRUE, type |-> Str("subscribe"), hash |-> Undef],
         [parses |-> TRUE, type |-> Str("ping"), hash |-> Str("h1")],
         [parses |-> FALSE, type |-> Undef, hash |-> Undef] }

(***************************************************************************)
(* What a handler was asked and answered; before is the peers array it     *)
(* read, peerCache.get(hash) || [], and previous the subscribedHash a      *)
(* subscribe message found, held the keys the cache held when load() was   *)
(* called.  registered is the history of the requests the server          *)
(* accepted: for each hash the peers as the last register of their peerId  *)
(* built them, registeredAt moved by each heartbeat request that named     *)
(* them within their ttl, less those an unsubscribe named since; no        *)
(* handler reads it.                                                       *)
(***************************************************************************)
NoRes ==
  [op |-> "none", hash |-> "", peerId |-> "", conn |-> "", body |-> NoBody,
   before |-> <<>>, previous |-> Null, held |-> {},
   status |-> 0, error |-> "", message |-> "",
   outPeerId |-> Undef, outTtl |-> Undef, outSourceAddress |-> Undef,
   peers |-> <<>>, lines |-> <<>>,
   cacheSize |-> Undef, activeWebSocketConnections |-> 0, activeHashGroups |-> 0]

\* the registrations in force for a hash
registeredIn(reg, hash) == IF hash \in DOMAIN reg THEN reg[hash] ELSE <<>>

Start ==
  /\ peerCache = EmptyMap
  /\ positionalMaxAge \in BOOLEAN
  /\ hashSubscriptions = EmptyMap
  /\ conn = [w \in Conns |-> [readyState |-> "CLOSED", subscribedHash |-> Null]]
  /\ snapshot = [exists |-> FALSE, data |-> EmptyMap]
  /\ now = 0
  /\ ticks = 0
  /\ ops = 0
  /\ wsEvents = 0
  /\ registered = EmptyMap
  /\ res = NoRes
  /\ sent = NoneSent

\* Spec explores the requests on one group in depth, SpecFanout those on two
\* groups with more WebSocket events, SpecClock one group with more instants,
\* SpecPush one group with more requests and whole ttls between them,
\* SpecIdentity one group with requests from two addresses, SpecGroups two
\* groups with the bodies of the default ttl and one WebSocket,
\* SpecObservers one group with the accepted bodies and more WebSocket events,
\* SpecPersistence one group with the snapshot; a WebSocket may subscribe to
\* either hash in all of them, and SpecClock sends the accepted bodies only
\* and has one WebSocket
Init ==
  /\ Start
  /\ limits = [ops |-> MaxOps, ws |-> MaxWs, ticks |-> MaxTicks, hashes |-> {"h1"},
               deltas |-> Deltas, bodies |-> Bodies,
               conns |-> Conns, sockets |-> Sockets]

InitFanout ==
  /\ Start
  /\ limits = [ops |-> FanoutOps, ws |-> FanoutWs, ticks |-> FanoutTicks, hashes |-> Hashes,
               deltas |-> Deltas, bodies |-> Bodies,
               conns |-> Conns, sockets |-> Sockets]

InitPersistence ==
  /\ Start
  /\ limits = [ops |-> PersistenceOps, ws |-> PersistenceWs, ticks |-> PersistenceTicks,
               hashes |-> {"h1"}, deltas |-> Deltas, bodies |-> Bodies,
               conns |-> Conns, sockets |-> Sockets]

InitPush ==
  /\ Start
  /\ limits = [ops |-> PushOps, ws |-> PushWs, ticks |-> PushTicks, hashes |-> {"h1"},
               deltas |-> {300000}, bodies |-> Bodies,
               conns |-> Conns, sockets |-> Sockets]

InitIdentity ==
  /\ Start
  /\ limits = [ops |-> IdentityOps, ws |-> IdentityWs, ticks |-> IdentityTicks,
               hashes |-> {"h1"}, deltas |-> {300000}, bodies |-> IdentityBodies,
               conns |-> {"w1"}, sockets |-> IdentitySockets]

InitGroups ==
  /\ Start
  /\ limits = [ops |-> GroupsOps, ws |-> GroupsWs, ticks |-> GroupsTicks,
               hashes |-> Hashes, deltas |-> {300000}, bodies |-> DefaultTtlBodies,
               conns |-> {"w1"}, sockets |-> Sockets]

InitObservers ==
  /\ Start
  /\ limits = [ops |-> ObserversOps, ws |-> ObserversWs, ticks |-> ObserversTicks,
               hashes |-> {"h1"}, deltas |-> {300000}, bodies |-> AcceptedBodies,
               conns |-> Conns, sockets |-> Sockets]

InitClock ==
  /\ Start
  /\ limits = [ops |-> ClockOps, ws |-> ClockWs, ticks |-> ClockTicks, hashes |-> {"h1"},
               deltas |-> ClockDeltas, bodies |-> AcceptedBodies,
               conns |-> {"w1"}, sockets |-> Sockets]

\* time passes between two handlers
Tick ==
  /\ ticks < limits.ticks
  /\ \E d \in limits.deltas : now' = now + d
  /\ ticks' = ticks + 1
  /\ res' = [NoRes EXCEPT !.op = "tick"]
  /\ sent' = NoneSent
  /\ UNCHANGED <<peerCache, positionalMaxAge, hashSubscriptions, conn, snapshot, ops, wsEvents, limits, registered>>

(***************************************************************************)
(* POST /subscribe/:secretHash (server.js 192-230), behind validatePeerData*)
(***************************************************************************)
\* the peerId without the client's: always the generated one
resolvePeerIdGenerated(body, sourceAddress) ==
  Str(generateDeterministicPeerId(body.name.s, body.endpoint.s, sourceAddress))

resolvePeerId(body, sourceAddress) ==
  IF Truthy(body.peerId) THEN body.peerId
  ELSE Str(generateDeterministicPeerId(body.name.s, body.endpoint.s, sourceAddress))

\* the handler without its filter: the new peer appended, the old one kept
registerPeersAppend(old, body, sourceAddress, t) ==
  LET ttl == IF body.ttl = Undef THEN Num(DefaultTTL) ELSE body.ttl
      metadata == IF body.metadata = Undef THEN Obj("{}") ELSE body.metadata
      peerId == resolvePeerId(body, sourceAddress)
  IN Append(old, peerData(body.name, body.endpoint, ttl, metadata, peerId, Str(sourceAddress), Num(t)))

\* the peers array the handler writes: the old peer of this peerId out, the new one last
registerPeers(old, body, sourceAddress, t) ==
  LET ttl == IF body.ttl = Undef THEN Num(DefaultTTL) ELSE body.ttl
      metadata == IF body.metadata = Undef THEN Obj("{}") ELSE body.metadata
      peerId == resolvePeerId(body, sourceAddress)
  IN Append(SelectSeq(old, LAMBDA p : p.peerId # peerId),
            peerData(body.name, body.endpoint, ttl, metadata, peerId, Str(sourceAddress), Num(t)))

Register(secretHash, body, socket) ==
  LET error == validatePeerData(body)
      sourceAddress == getClientAddress(socket)
      old == cacheGet(peerCache, positionalMaxAge, secretHash, now)
      peers == registerPeers(old, body, sourceAddress, now)
  IN /\ ops < limits.ops
     /\ ops' = ops + 1
     /\ IF error # ""
        THEN /\ res' = [NoRes EXCEPT !.op = "register", !.hash = secretHash, !.body = body,
                                     !.status = 400, !.error = error]
             /\ sent' = NoneSent
             /\ UNCHANGED <<peerCache, registered>>
        ELSE /\ peerCache' = cacheSet(cacheAfterGet(peerCache, positionalMaxAge, secretHash, now),
                                      secretHash, peers, maxTTLms(peers), now)
             /\ sent' = notifyPeerChange(hashSubscriptions, conn, secretHash, peers, now)
             /\ registered' = Put(registered, secretHash,
                                  registerPeers(registeredIn(registered, secretHash), body,
                                                sourceAddress, now))
             /\ res' = [NoRes EXCEPT !.op = "register", !.hash = secretHash, !.body = body,
                                     !.before = old,
                                     !.peerId = resolvePeerId(body, sourceAddress).s,
                                     !.status = 200, !.message = "Successfully registered",
                                     !.outPeerId = resolvePeerId(body, sourceAddress),
                                     !.outTtl = IF body.ttl = Undef THEN Num(DefaultTTL) ELSE body.ttl,
                                     !.outSourceAddress = Str(sourceAddress)]
     /\ UNCHANGED <<positionalMaxAge, hashSubscriptions, conn, snapshot, now, ticks, wsEvents, limits>>

(***************************************************************************)
(* GET /discovery/:secretHash (233-245) and .../ndjson (248-269).          *)
(***************************************************************************)
\* the cache after the JSON handler (235-240)
discoveryCache(cache, positional, secretHash, t) ==
  LET peers == cacheGet(cache, positional, secretHash, t)
      activePeers == filterActivePeers(peers, t)
      got == cacheAfterGet(cache, positional, secretHash, t)
  IN IF Len(activePeers) < Len(peers)
     THEN cacheSet(got, secretHash, activePeers, maxTTLms(activePeers), t)
     ELSE got

\* what the JSON handler sends to the WebSockets (238, 241)
discoverySent(cache, positional, subs, connections, secretHash, t) ==
  LET peers == cacheGet(cache, positional, secretHash, t)
      activePeers == filterActivePeers(peers, t)
  IN IF Len(activePeers) < Len(peers)
     THEN notifyPeerChange(subs, connections, secretHash, activePeers, t)
     ELSE NoneSent

Discovery(secretHash) ==
  LET peers == cacheGet(peerCache, positionalMaxAge, secretHash, now)
      activePeers == filterActivePeers(peers, now)
  IN /\ ops < limits.ops
     /\ ops' = ops + 1
     /\ peerCache' = discoveryCache(peerCache, positionalMaxAge, secretHash, now)
     /\ sent' = discoverySent(peerCache, positionalMaxAge, hashSubscriptions, conn, secretHash, now)
     /\ res' = [NoRes EXCEPT !.op = "discovery", !.hash = secretHash, !.status = 200,
                             !.before = peers,
                             !.peers = jsonPeers(activePeers)]
     /\ UNCHANGED <<positionalMaxAge, hashSubscriptions, conn, snapshot, now, ticks, wsEvents, limits, registered>>

\* activePeers.forEach(peer => res.write(JSON.stringify(peer) + '\n')), as the
\* reader of the lines parses them
ndjsonLines(activePeers) == [i \in 1..Len(activePeers) |-> jsonPeer(activePeers[i])]

\* the write-back made for any read, pruned or not
ndjsonCacheAlways(cache, positional, secretHash, t) ==
  LET peers == cacheGet(cache, positional, secretHash, t)
      activePeers == filterActivePeers(peers, t)
  IN cacheSet(cacheAfterGet(cache, positional, secretHash, t),
              secretHash, activePeers, maxTTLms(activePeers), t)

\* the cache after the NDJSON handler (250-251, 263-265)
ndjsonCache(cache, positional, secretHash, t) ==
  LET peers == cacheGet(cache, positional, secretHash, t)
      activePeers == filterActivePeers(peers, t)
      got == cacheAfterGet(cache, positional, secretHash, t)
  IN IF Len(activePeers) < Len(peers)
     THEN cacheSet(got, secretHash, activePeers, maxTTLms(activePeers), t)
     ELSE got

\* what the NDJSON handler sends to the WebSockets (263, 266)
ndjsonSent(cache, positional, subs, connections, secretHash, t) ==
  LET peers == cacheGet(cache, positional, secretHash, t)
      activePeers == filterActivePeers(peers, t)
  IN IF Len(activePeers) < Len(peers)
     THEN notifyPeerChange(subs, connections, secretHash, activePeers, t)
     ELSE NoneSent

DiscoveryNdjson(secretHash) ==
  LET peers == cacheGet(peerCache, positionalMaxAge, secretHash, now)
      activePeers == filterActivePeers(peers, now)
  IN /\ ops < limits.ops
     /\ ops' = ops + 1
     /\ peerCache' = ndjsonCache(peerCache, positionalMaxAge, secretHash, now)
     /\ sent' = ndjsonSent(peerCache, positionalMaxAge, hashSubscriptions, conn, secretHash, now)
     /\ res' = [NoRes EXCEPT !.op = "ndjson", !.hash = secretHash, !.status = 200,
                             !.before = peers,
                             !.lines = ndjsonLines(activePeers)]
     /\ UNCHANGED <<positionalMaxAge, hashSubscriptions, conn, snapshot, now, ticks, wsEvents, limits, registered>>

(***************************************************************************)
(* POST /heartbeat/:secretHash/:peerId (272-286).                          *)
(***************************************************************************)
\* peers.findIndex(p => p.peerId === peerId), 0 for -1
findIndex(peers, peerId) ==
  IF \E i \in 1..Len(peers) : peers[i].peerId = Str(peerId)
  THEN CHOOSE i \in 1..Len(peers) :
         /\ peers[i].peerId = Str(peerId)
         /\ \A j \in 1..(i - 1) : peers[j].peerId # Str(peerId)
  ELSE 0

\* the assignment made to every peer of the array
heartbeatPeersAll(peers, peerIndex, t) ==
  [i \in 1..Len(peers) |-> [peers[i] EXCEPT !.registeredAt = Num(t)]]

\* the handler writing the member it touched alone, the others lost
heartbeatPeersAlone(peers, peerIndex, t) ==
  <<[peers[peerIndex] EXCEPT !.registeredAt = Num(t)]>>

\* peers[peerIndex].registeredAt = Date.now()
heartbeatPeers(peers, peerIndex, t) == [peers EXCEPT ![peerIndex].registeredAt = Num(t)]

\* the history after a heartbeat request: the peer it names, when registered
\* and within its ttl at t, has its ttl counted from t
heartbeatRegistered(reg, secretHash, peerId, t) ==
  IF secretHash \in DOMAIN reg
  THEN [reg EXCEPT ![secretHash] =
          [i \in 1..Len(@) |->
             IF @[i].peerId = Str(peerId) /\ isActive(@[i], t)
             THEN [@[i] EXCEPT !.registeredAt = Num(t)]
             ELSE @[i]]]
  ELSE reg

\* the handler with the notifyPeerChange call the other writers make
heartbeatSentNotifies(subs, connections, secretHash, peers, t) ==
  notifyPeerChange(subs, connections, secretHash, peers, t)

\* what the handler sends to the WebSockets: it has no notifyPeerChange call
heartbeatSent(subs, connections, secretHash, peers, t) == NoneSent

Heartbeat(secretHash, peerId) ==
  LET peers == cacheGet(peerCache, positionalMaxAge, secretHash, now)
      peerIndex == findIndex(peers, peerId)
      got == cacheAfterGet(peerCache, positionalMaxAge, secretHash, now)
  IN /\ ops < limits.ops
     /\ ops' = ops + 1
     /\ sent' = heartbeatSent(hashSubscriptions, conn, secretHash, peers, now)
     /\ IF peerIndex = 0
        THEN /\ peerCache' = got
             /\ res' = [NoRes EXCEPT !.op = "heartbeat", !.hash = secretHash, !.peerId = peerId,
                                     !.before = peers, !.status = 404, !.error = "Peer not found"]
        ELSE /\ peerCache' = cacheSet(got, secretHash, heartbeatPeers(peers, peerIndex, now),
                                      maxTTLms(heartbeatPeers(peers, peerIndex, now)), now)
             /\ res' = [NoRes EXCEPT !.op = "heartbeat", !.hash = secretHash, !.peerId = peerId,
                                     !.before = peers, !.status = 200, !.message = "Heartbeat received"]
     /\ registered' = heartbeatRegistered(registered, secretHash, peerId, now)
     /\ UNCHANGED <<positionalMaxAge, hashSubscriptions, conn, snapshot, now, ticks, wsEvents, limits>>

(***************************************************************************)
(* DELETE /unsubscribe/:secretHash/:peerId (289-305).                      *)
(***************************************************************************)
\* the filter with === for !==
unsubscribePeersInverted(peers, peerId) == SelectSeq(peers, LAMBDA p : p.peerId = Str(peerId))

\* peers.filter(peer => peer.peerId !== peerId)
unsubscribePeers(peers, peerId) == SelectSeq(peers, LAMBDA p : p.peerId # Str(peerId))

\* the handler without its else branch: the rest always written back
unsubscribeCacheAlwaysSet(cache, positional, secretHash, peerId, t) ==
  LET peers == unsubscribePeers(cacheGet(cache, positional, secretHash, t), peerId)
      got == cacheAfterGet(cache, positional, secretHash, t)
  IN cacheSet(got, secretHash, peers, maxTTLms(peers), t)

\* the cache after the handler: the rest written back, or the key deleted
unsubscribeCache(cache, positional, secretHash, peerId, t) ==
  LET peers == unsubscribePeers(cacheGet(cache, positional, secretHash, t), peerId)
      got == cacheAfterGet(cache, positional, secretHash, t)
  IN IF Len(peers) > 0
     THEN cacheSet(got, secretHash, peers, maxTTLms(peers), t)
     ELSE cacheDel(got, secretHash)

Unsubscribe(secretHash, peerId) ==
  LET old == cacheGet(peerCache, positionalMaxAge, secretHash, now)
      peers == unsubscribePeers(old, peerId)
  IN /\ ops < limits.ops
     /\ ops' = ops + 1
     /\ peerCache' = unsubscribeCache(peerCache, positionalMaxAge, secretHash, peerId, now)
     /\ sent' = notifyPeerChange(hashSubscriptions, conn, secretHash, peers, now)
     /\ res' = [NoRes EXCEPT !.op = "unsubscribe", !.hash = secretHash, !.peerId = peerId,
                             !.before = old, !.status = 200, !.message = "Successfully unsubscribed"]
     /\ registered' =
          IF unsubscribePeers(registeredIn(registered, secretHash), peerId) = <<>>
          THEN Remove(registered, secretHash)
          ELSE Put(registered, secretHash,
                   unsubscribePeers(registeredIn(registered, secretHash), peerId))
     /\ UNCHANGED <<positionalMaxAge, hashSubscriptions, conn, snapshot, now, ticks, wsEvents, limits>>

(***************************************************************************)
(* GET /health (308-316): the entries the cache holds, the WebSocket       *)
(* clients of the server, the keys of hashSubscriptions.                   *)
(***************************************************************************)
\* peerCache.size
cacheSizeOf(cache, positional) ==
  IF positional THEN Undef ELSE Num(Cardinality(DOMAIN cache))

Health ==
  /\ ops < limits.ops
  /\ ops' = ops + 1
  /\ sent' = NoneSent
  /\ res' = [NoRes EXCEPT !.op = "health", !.status = 200,
                          !.cacheSize = cacheSizeOf(peerCache, positionalMaxAge),
                          !.activeWebSocketConnections =
                             Cardinality({w \in Conns : conn[w].readyState # "CLOSED"}),
                          !.activeHashGroups = Cardinality(DOMAIN hashSubscriptions)]
  /\ UNCHANGED <<peerCache, positionalMaxAge, hashSubscriptions, conn, snapshot, now, ticks, wsEvents, limits, registered>>

(***************************************************************************)
(* The WebSocket server (44-88).                                           *)
(***************************************************************************)
\* subs.delete(ws) without the delete of a key whose set is empty
dropSubscriptionKeepsKey(subs, subscribedHash, w) ==
  IF Truthy(subscribedHash) /\ subscribedHash.s \in DOMAIN subs
  THEN [subs EXCEPT ![subscribedHash.s] = @ \ {w}]
  ELSE subs

\* subs.delete(ws); if (subs.size === 0) hashSubscriptions.delete(subscribedHash)
dropSubscription(subs, subscribedHash, w) ==
  IF Truthy(subscribedHash) /\ subscribedHash.s \in DOMAIN subs
  THEN IF subs[subscribedHash.s] \ {w} = {}
       THEN Remove(subs, subscribedHash.s)
       ELSE [subs EXCEPT ![subscribedHash.s] = @ \ {w}]
  ELSE subs

\* hashSubscriptions.get(hash).add(ws), on a new Set when the key is not held
addSubscription(subs, hash, w) ==
  IF hash \in DOMAIN subs
  THEN [subs EXCEPT ![hash] = @ \cup {w}]
  ELSE Put(subs, hash, {w})

\* wss.on('connection'): a new socket, open, with subscribedHash = null
WsConnect(w) ==
  /\ wsEvents < limits.ws
  /\ wsEvents' = wsEvents + 1
  /\ conn[w].readyState = "CLOSED"
  /\ conn' = [conn EXCEPT ![w] = [readyState |-> "OPEN", subscribedHash |-> Null]]
  /\ res' = [NoRes EXCEPT !.op = "ws-connect", !.conn = w]
  /\ sent' = NoneSent
  /\ UNCHANGED <<peerCache, positionalMaxAge, hashSubscriptions, snapshot, now, ticks, ops, limits, registered>>

\* ws.on('message')
WsMessage(w, data) ==
  /\ wsEvents < limits.ws
  /\ wsEvents' = wsEvents + 1
  /\ conn[w].readyState = "OPEN"
  /\ IF data.parses /\ data.type = Str("subscribe") /\ Truthy(data.hash)
     THEN /\ hashSubscriptions' =
               addSubscription(dropSubscription(hashSubscriptions, conn[w].subscribedHash, w),
                               data.hash.s, w)
          /\ conn' = [conn EXCEPT ![w].subscribedHash = data.hash]
          /\ peerCache' = cacheAfterGet(peerCache, positionalMaxAge, data.hash.s, now)
          /\ sent' = [NoneSent EXCEPT ![w] =
                        <<peersMessage(cacheGet(peerCache, positionalMaxAge, data.hash.s, now), now)>>]
          /\ res' = [NoRes EXCEPT !.op = "ws-subscribe", !.conn = w, !.hash = data.hash.s,
                                  !.previous = conn[w].subscribedHash,
                                  !.before = cacheGet(peerCache, positionalMaxAge, data.hash.s, now)]
     ELSE /\ res' = [NoRes EXCEPT !.op = "ws-ignored", !.conn = w]
          /\ sent' = NoneSent
          /\ UNCHANGED <<peerCache, hashSubscriptions, conn>>
  /\ UNCHANGED <<positionalMaxAge, snapshot, now, ticks, ops, limits, registered>>

\* the closing handshake starts: the socket is no longer OPEN, 'close' not yet emitted
WsClosing(w) ==
  /\ wsEvents < limits.ws
  /\ wsEvents' = wsEvents + 1
  /\ conn[w].readyState = "OPEN"
  /\ conn' = [conn EXCEPT ![w].readyState = "CLOSING"]
  /\ res' = [NoRes EXCEPT !.op = "ws-closing", !.conn = w]
  /\ sent' = NoneSent
  /\ UNCHANGED <<peerCache, positionalMaxAge, hashSubscriptions, snapshot, now, ticks, ops, limits, registered>>

\* ws.on('close')
WsClose(w) ==
  /\ wsEvents < limits.ws
  /\ wsEvents' = wsEvents + 1
  /\ conn[w].readyState \in {"OPEN", "CLOSING"}
  /\ hashSubscriptions' = dropSubscription(hashSubscriptions, conn[w].subscribedHash, w)
  /\ conn' = [conn EXCEPT ![w].readyState = "CLOSED"]
  /\ res' = [NoRes EXCEPT !.op = "ws-close", !.conn = w]
  /\ sent' = NoneSent
  /\ UNCHANGED <<peerCache, positionalMaxAge, snapshot, now, ticks, ops, limits, registered>>

(***************************************************************************)
(* PersistenceManager (persistence.js), on the peer cache.                 *)
(***************************************************************************)
\* JSON.parse(JSON.stringify(peer)): a number that is not finite comes back null
jsonRoundTrip(peer) ==
  [peer EXCEPT !.ttl = jsonNumber(@), !.registeredAt = jsonNumber(@), !.age = jsonNumber(@)]

\* the dump of save(): every entry the cache iterates, its peers as they are.
\* The lru-cache releases that take set's third argument have no entries():
\* there the loop throws, the catch logs, and the file is left as it was.
saveDump(cache, positional, t) ==
  [h \in {k \in DOMAIN cache : ~isStale(cache[k], positional, t)} |->
     [i \in 1..Len(cache[h].value) |-> jsonRoundTrip(cache[h].value[i])]]

Save ==
  /\ ops < limits.ops
  /\ ops' = ops + 1
  /\ snapshot' = IF positionalMaxAge
                 THEN snapshot
                 ELSE [exists |-> TRUE, data |-> saveDump(peerCache, positionalMaxAge, now)]
  /\ res' = [NoRes EXCEPT !.op = "save"]
  /\ sent' = NoneSent
  /\ UNCHANGED <<peerCache, positionalMaxAge, hashSubscriptions, conn, now, ticks, wsEvents, limits, registered>>

\* peers.filter(peer => now - peer.registeredAt < peer.ttl * 1000)
loadActivePeers(peers, t) == SelectSeq(peers, LAMBDA p : isActive(p, t))

\* the cache after load(): each group of the file with an active peer is set
loadCache(cache, data, t) ==
  [h \in DOMAIN cache \cup {k \in DOMAIN data : Len(loadActivePeers(data[k], t)) > 0} |->
     IF h \in DOMAIN data /\ Len(loadActivePeers(data[h], t)) > 0
     THEN [value |-> loadActivePeers(data[h], t),
           maxAge |-> maxTTLms(loadActivePeers(data[h], t)),
           now |-> t]
     ELSE cache[h]]

Load ==
  /\ ops < limits.ops
  /\ ops' = ops + 1
  /\ peerCache' = IF snapshot.exists THEN loadCache(peerCache, snapshot.data, now) ELSE peerCache
  /\ res' = [NoRes EXCEPT !.op = "load", !.held = DOMAIN peerCache]
  /\ sent' = NoneSent
  /\ UNCHANGED <<positionalMaxAge, hashSubscriptions, conn, snapshot, now, ticks, wsEvents, limits, registered>>

\* the server: server.js does not load persistence.js
NextServer ==
  \/ Tick
  \/ \E h \in limits.hashes, b \in limits.bodies, s \in limits.sockets : Register(h, b, s)
  \/ \E h \in limits.hashes : Discovery(h)
  \/ \E h \in limits.hashes : DiscoveryNdjson(h)
  \/ \E h \in limits.hashes, p \in PeerIdParams : Heartbeat(h, p)
  \/ \E h \in limits.hashes, p \in PeerIdParams : Unsubscribe(h, p)
  \/ Health
  \/ \E w \in limits.conns : WsConnect(w)
  \/ \E w \in limits.conns, m \in WsMessages(Hashes) : WsMessage(w, m)
  \/ \E w \in limits.conns : WsClosing(w)
  \/ \E w \in limits.conns : WsClose(w)

\* the server with a PersistenceManager on its peer cache
Next ==
  \/ NextServer
  \/ Save
  \/ Load

Spec == Init /\ [][NextServer]_vars

SpecFanout == InitFanout /\ [][NextServer]_vars

SpecClock == InitClock /\ [][NextServer]_vars

SpecPush == InitPush /\ [][NextServer]_vars

SpecIdentity == InitIdentity /\ [][NextServer]_vars

SpecGroups == InitGroups /\ [][NextServer]_vars

SpecObservers == InitObservers /\ [][NextServer]_vars

SpecPersistence == InitPersistence /\ [][Next]_vars

(***************************************************************************)
(* Properties.                                                             *)
(***************************************************************************)
\* the peerIds of a sequence of peers
peerIdsOf(peers) == {peers[i].peerId : i \in 1..Len(peers)}

\* the members of a group as a handler reads them
membersOf(h) == cacheGet(peerCache, positionalMaxAge, h, now)

\* the connections notifyPeerChange reaches for a hash
openObservers(h) ==
  IF h \in DOMAIN hashSubscriptions
  THEN {w \in hashSubscriptions[h] : conn[w].readyState = "OPEN"}
  ELSE {}

\* C1: no key of the registry holds an empty member list: a group whose
\* members have all expired or been removed is absent from the store, and
\* the group count of /health, when the cache gives one, counts only groups
\* with a member.
C1_NoEmptyGroupStored ==
  /\ \A h \in DOMAIN peerCache : Len(peerCache[h].value) > 0
  /\ (res.op = "health" /\ res.cacheSize # Undef) =>
       res.cacheSize = Num(Cardinality({h \in Hashes : Len(membersOf(h)) > 0}))

\* what C2 takes for a valid registration
validRegistration(body) ==
  /\ body.name.t = "string" /\ body.name.s # ""
  /\ body.endpoint.t = "string" /\ body.endpoint.s # ""
  /\ body.ttl = Undef \/ (IsFinite(body.ttl) /\ body.ttl.n >= 0)
  /\ body.metadata = Undef \/ body.metadata.t = "object"
  /\ body.peerId = Undef \/ body.peerId.t = "string"

\* C2: register accepts every request with a name and an endpoint that are
\* non-empty strings and a ttl that is absent or a non-negative integer,
\* answers the resolved peerId, the effective ttl (300 when absent) and the
\* sourceAddress, and the peer (of a ttl above 0) is then discovered with
\* age 0; it answers a validation error only for an invalid request.
C2_RegisterAcceptsValid ==
  res.op = "register" =>
    /\ validRegistration(res.body) <=> res.status = 200
    /\ res.status # 200 => res.status = 400 /\ res.error # ""
    /\ res.status = 200 =>
         /\ res.outPeerId.t = "string"
         /\ res.body.peerId # Undef => res.outPeerId = res.body.peerId
         /\ res.outTtl = (IF res.body.ttl = Undef THEN Num(300) ELSE res.body.ttl)
         /\ res.outSourceAddress.t = "string"
         /\ res.outTtl # Num(0) =>
              \E i \in 1..Len(filterActivePeers(membersOf(res.hash), now)) :
                /\ filterActivePeers(membersOf(res.hash), now)[i].peerId = res.outPeerId
                /\ filterActivePeers(membersOf(res.hash), now)[i].age = Num(0)

\* C3: the peerIds of the members of a stored group are distinct, and a
\* register leaves exactly one member of its peerId, the one it wrote, in
\* place of the member of that peerId it found (the others kept, in order).
C3_PeerIdUnique ==
  /\ \A h \in DOMAIN peerCache :
       \A i, j \in 1..Len(peerCache[h].value) :
         peerCache[h].value[i].peerId = peerCache[h].value[j].peerId => i = j
  /\ (res.op = "register" /\ res.status = 200) =>
       LET written == peerCache[res.hash].value
           kept == SelectSeq(res.before, LAMBDA p : p.peerId # res.outPeerId)
       IN /\ Len(written) = Len(kept) + 1
          /\ SubSeq(written, 1, Len(kept)) = kept
          /\ written[Len(written)].peerId = res.outPeerId
          /\ written[Len(written)].registeredAt = Num(now)
          /\ res.outPeerId \in peerIdsOf(res.before) => Len(written) = Len(res.before)

\* a register met a member of its own peerId, registered earlier, in a group of two
C3_Witness ==
  /\ res.op = "register" /\ res.status = 200
  /\ Len(res.before) = 2
  /\ res.outPeerId \in peerIdsOf(res.before)
  /\ \E i \in 1..2 : res.before[i].peerId = res.outPeerId /\ res.before[i].registeredAt # Num(now)
  /\ Len(peerCache[res.hash].value) = 2

\* the largest ttl of a sequence of peers that all have a finite one
maxMemberTtl(peers) ==
  CHOOSE m \in {peers[i].ttl.n : i \in 1..Len(peers)} :
    \A i \in 1..Len(peers) : peers[i].ttl.n <= m

\* C4: the TTL of every stored group entry is the largest ttl of the members
\* written with it, in seconds times 1000.
C4_GroupTtlIsMaxMemberTtl ==
  \A h \in DOMAIN peerCache :
    LET e == peerCache[h]
    IN Len(e.value) > 0 =>
         /\ \A i \in 1..Len(e.value) : IsFinite(e.value[i].ttl)
         /\ e.maxAge = Num(1000 * maxMemberTtl(e.value))

\* whether the ttl of the i-th peer of a list read, counted from registeredAt, is not over at t
ttlNotOver(peers, i, t) ==
  /\ IsFinite(peers[i].ttl)
  /\ IsFinite(peers[i].registeredAt)
  /\ t - peers[i].registeredAt.n < peers[i].ttl.n * 1000

\* C5: a discovery returns exactly the members it read that have
\* now - registeredAt < ttl * 1000, in the order it read them, each with
\* age = round((now - registeredAt) / 1000).
C5_FilterBoundary ==
  res.op \in {"discovery", "ndjson"} =>
    LET out == IF res.op = "discovery" THEN res.peers ELSE res.lines
        kept == {i \in 1..Len(res.before) : ttlNotOver(res.before, i, now)}
        place(i) == Cardinality({k \in kept : k <= i})
    IN /\ Len(out) = Cardinality(kept)
       /\ \A i \in kept :
            LET d == now - res.before[i].registeredAt.n
                age == out[place(i)].age
            IN /\ out[place(i)].peerId = res.before[i].peerId
               /\ out[place(i)].name = res.before[i].name
               /\ IsFinite(age)
               /\ 1000 * age.n - 500 <= d
               /\ d < 1000 * age.n + 500

\* a discovery returned both members it read, in their order, one millisecond
\* before their ttl was over
C5_Witness ==
  /\ res.op = "discovery"
  /\ Len(res.before) = 2
  /\ Len(res.peers) = 2
  /\ \A i \in 1..2 :
       /\ IsFinite(res.before[i].ttl) /\ res.before[i].ttl.n > 0
       /\ now - res.before[i].registeredAt.n = res.before[i].ttl.n * 1000 - 1
       /\ res.peers[i].peerId = res.before[i].peerId
       /\ res.peers[i].age = Num(res.before[i].ttl.n)

\* C6: an unsubscribe answers success; one of a peerId that is not a member
\* of the group it reads leaves the member list as it was and creates no
\* group; every open observer of the group, and no other connection, is sent
\* one push of the filtered view of the list the unsubscribe left; the same
\* unsubscribe applied again changes neither the store nor the pushes.
C6_UnsubscribeIdempotent ==
  res.op = "unsubscribe" =>
    /\ res.status = 200
    /\ Str(res.peerId) \notin peerIdsOf(res.before) =>
         /\ membersOf(res.hash) = res.before
         /\ res.before = <<>> => res.hash \notin DOMAIN peerCache
    /\ \A w \in Conns :
         sent[w] = IF w \in openObservers(res.hash)
                   THEN << [type |-> "peers",
                            peers |-> jsonPeers(filterActivePeers(membersOf(res.hash), now))] >>
                   ELSE <<>>
    /\ unsubscribeCache(peerCache, positionalMaxAge, res.hash, res.peerId, now) = peerCache
    /\ notifyPeerChange(hashSubscriptions, conn, res.hash,
                        unsubscribePeers(membersOf(res.hash), res.peerId), now) = sent

\* an unsubscribe of a peerId that is not a member left a group of one active
\* member as it was and pushed that member to an open observer
C6_Witness ==
  /\ res.op = "unsubscribe"
  /\ Len(res.before) = 1
  /\ Str(res.peerId) \notin peerIdsOf(res.before)
  /\ membersOf(res.hash) = res.before
  /\ \E w \in openObservers(res.hash) :
       /\ Len(sent[w]) = 1
       /\ Len(sent[w][1].peers) = 1
       /\ sent[w][1].peers[1].peerId = res.before[1].peerId

\* C7: an unsubscribe of the only member of the group it reads leaves no key
\* for the group in the store, and every open observer of the group is sent
\* one push with an empty peer list.
C7_UnsubscribeLastDeletesGroup ==
  (/\ res.op = "unsubscribe"
   /\ Len(res.before) = 1
   /\ res.before[1].peerId = Str(res.peerId)) =>
    /\ res.hash \notin DOMAIN peerCache
    /\ \A w \in openObservers(res.hash) : sent[w] = << [type |-> "peers", peers |-> <<>>] >>

\* an unsubscribe removed the only member, an active one, and an open
\* observer was sent the empty list
C7_Witness ==
  /\ res.op = "unsubscribe"
  /\ Len(res.before) = 1
  /\ res.before[1].peerId = Str(res.peerId)
  /\ isActive(res.before[1], now)
  /\ res.hash \notin DOMAIN peerCache
  /\ \E w \in openObservers(res.hash) : sent[w] = << [type |-> "peers", peers |-> <<>>] >>

\* C8: no key of the subscription map holds an empty set; a connection is in
\* the set of a hash exactly when it is not closed and that hash is the one
\* of its last subscribe message, so it is in one set at most; a subscribe
\* puts it in the set of its hash and takes it out of the one it was in, a
\* close takes it out of every set, and activeHashGroups of /health is the
\* number of hashes with an observer.
C8_SubscriptionMap ==
  /\ \A h \in DOMAIN hashSubscriptions : hashSubscriptions[h] # {}
  /\ DOMAIN hashSubscriptions \subseteq Hashes
  /\ \A w \in Conns : \A h \in Hashes :
       (h \in DOMAIN hashSubscriptions /\ w \in hashSubscriptions[h])
         <=> (conn[w].readyState # "CLOSED" /\ conn[w].subscribedHash = Str(h))
  /\ \A w \in Conns :
       Cardinality({h \in DOMAIN hashSubscriptions : w \in hashSubscriptions[h]}) <= 1
  /\ res.op = "ws-subscribe" =>
       /\ conn[res.conn].subscribedHash = Str(res.hash)
       /\ res.conn \in hashSubscriptions[res.hash]
       /\ \A h \in DOMAIN hashSubscriptions \ {res.hash} : res.conn \notin hashSubscriptions[h]
  /\ res.op = "ws-close" =>
       \A h \in DOMAIN hashSubscriptions : res.conn \notin hashSubscriptions[h]
  /\ res.op = "health" =>
       res.activeHashGroups =
         Cardinality({h \in Hashes : \E w \in Conns :
                        conn[w].readyState # "CLOSED" /\ conn[w].subscribedHash = Str(h)})

\* a connection that observed one hash alone subscribed to another: the key
\* of the first is gone
C8_Witness ==
  /\ res.op = "ws-subscribe"
  /\ res.previous \in {Str(h) : h \in Hashes \ {res.hash}}
  /\ res.previous.s \notin DOMAIN hashSubscriptions
  /\ hashSubscriptions[res.hash] = {res.conn}

\* the registrations in force for a hash whose ttl, counted from the
\* register, is not over
activeRegistered(h) ==
  SelectSeq(registeredIn(registered, h),
            LAMBDA p : now - p.registeredAt.n < p.ttl.n * 1000)

\* C9: a successful register (of a ttl above 0) sends every open observer of
\* its group exactly one push, whose peer list holds the peer registered and
\* every other peer registered in the group, not unsubscribed, whose ttl is
\* not over, and no peer that is not registered there; no other connection
\* is sent anything.
C9_RegisterPushesCumulative ==
  (res.op = "register" /\ res.status = 200 /\ res.outTtl # Num(0)) =>
    \A w \in Conns :
      IF w \in openObservers(res.hash)
      THEN /\ Len(sent[w]) = 1
           /\ sent[w][1].type = "peers"
           /\ res.outPeerId \in peerIdsOf(sent[w][1].peers)
           /\ peerIdsOf(activeRegistered(res.hash)) \subseteq peerIdsOf(sent[w][1].peers)
           /\ peerIdsOf(sent[w][1].peers) \subseteq peerIdsOf(registeredIn(registered, res.hash))
      ELSE sent[w] = <<>>

\* C10: a subscribe message is answered, in its own step, with one 'peers'
\* message to its connection and nothing to any other; the list is the one a
\* discovery of the hash answers at that instant: the members read whose ttl
\* is not over, in order, and none when the store has no key for the hash.
C10_SubscribeCatchUp ==
  res.op = "ws-subscribe" =>
    /\ \A w \in Conns \ {res.conn} : sent[w] = <<>>
    /\ Len(sent[res.conn]) = 1
    /\ sent[res.conn][1].type = "peers"
    /\ sent[res.conn][1].peers = jsonPeers(filterActivePeers(membersOf(res.hash), now))
    /\ LET list == sent[res.conn][1].peers
           kept == {i \in 1..Len(res.before) : ttlNotOver(res.before, i, now)}
       IN /\ Len(list) = Cardinality(kept)
          /\ \A i \in kept :
               list[Cardinality({k \in kept : k <= i})].peerId = res.before[i].peerId
    /\ res.hash \notin DOMAIN peerCache => sent[res.conn][1].peers = <<>>

\* a subscribe read two members, one of them expired, and was answered with
\* the other alone
C10_Witness ==
  /\ res.op = "ws-subscribe"
  /\ Len(res.before) = 2
  /\ Len(sent[res.conn]) = 1
  /\ Len(sent[res.conn][1].peers) = 1
  /\ \E i \in 1..2 :
       /\ isActive(res.before[i], now)
       /\ sent[res.conn][1].peers[1].peerId = res.before[i].peerId

membersWithId(peerId) ==
  {i \in 1..Len(peerCache[res.hash].value) : peerCache[res.hash].value[i].peerId = peerId}

\* C12 as stated: a successful register that supplies a string peerId is
\* answered that peerId, whatever the string.
C12_StringPeerIdEchoed ==
  (res.op = "register" /\ res.status = 200 /\ res.body.peerId.t = "string") =>
    res.outPeerId = res.body.peerId

\* C12, amended: a successful register that supplies a non-empty string
\* peerId is answered that peerId; one that supplies none, or the empty
\* string, is answered the identifier generated from name, endpoint and
\* sourceAddress alone; either way the group then holds exactly one member
\* of the peerId answered, whatever ran before.
C12_IdentityDeterministic ==
  (res.op = "register" /\ res.status = 200) =>
    /\ (res.body.peerId.t = "string" /\ res.body.peerId.s # "") =>
         res.outPeerId = res.body.peerId
    /\ (res.body.peerId = Undef \/ res.body.peerId = Str("")) =>
         res.outPeerId = Str(generateDeterministicPeerId(res.body.name.s, res.body.endpoint.s,
                                                         res.outSourceAddress.s))
    /\ Cardinality(membersWithId(res.outPeerId)) = 1

\* a register without a peerId met the member an earlier register of the
\* same name, endpoint and address left, after another request, in a group
\* that also holds that name and endpoint registered from another address
C12_Witness ==
  /\ res.op = "register" /\ res.status = 200
  /\ res.body.peerId = Undef
  /\ res.outPeerId \in peerIdsOf(res.before)
  /\ Len(peerCache[res.hash].value) = 2
  /\ \A i \in 1..2 : peerCache[res.hash].value[i].name = res.body.name
  /\ Cardinality(membersWithId(res.outPeerId)) = 1

\* C13: a discovery that read members whose ttl is over and members whose
\* ttl is not leaves the group stored with exactly the latter, every field
\* (ttl and registeredAt too) as read, so that a discovery repeated at once
\* answers the same peers.
C13_PruneKeepsSurvivors ==
  LET kept == {i \in 1..Len(res.before) : ttlNotOver(res.before, i, now)}
      out == IF res.op = "discovery" THEN res.peers ELSE res.lines
  IN (res.op \in {"discovery", "ndjson"} /\ kept # {} /\ Cardinality(kept) < Len(res.before)) =>
       /\ res.hash \in DOMAIN peerCache
       /\ Len(peerCache[res.hash].value) = Cardinality(kept)
       /\ \A i \in kept :
            peerCache[res.hash].value[Cardinality({k \in kept : k <= i})] = res.before[i]
       /\ jsonPeers(filterActivePeers(membersOf(res.hash), now)) = out

\* C14: a discovery that answers fewer peers than it read sends every open
\* observer of the group one push whose peers have the peerIds of the peers
\* it answers.
C14_PushEqualsPull ==
  LET out == IF res.op = "discovery" THEN res.peers ELSE res.lines
  IN (res.op \in {"discovery", "ndjson"} /\ Len(out) < Len(res.before)) =>
       \A w \in openObservers(res.hash) :
         /\ Len(sent[w]) = 1
         /\ sent[w][1].type = "peers"
         /\ peerIdsOf(sent[w][1].peers) = peerIdsOf(out)

\* C15: a heartbeat leaves every other group as it was; one whose peerId no
\* member of the list read has is answered 404, leaves that list as it was
\* and adds no key to the store; one whose peerId a member has is answered
\* 200 and leaves the list as read but for that member's registeredAt, which
\* is the time of the request.
C15_HeartbeatTouchesOneMember ==
  [][ res'.op = "heartbeat" =>
        LET h == res'.hash
            old == cacheGet(peerCache, positionalMaxAge, h, now)
            new == cacheGet(peerCache', positionalMaxAge, h, now')
        IN /\ \A g \in Hashes \ {h} :
                /\ g \in DOMAIN peerCache' <=> g \in DOMAIN peerCache
                /\ g \in DOMAIN peerCache => peerCache'[g] = peerCache[g]
           /\ DOMAIN peerCache' \subseteq DOMAIN peerCache
           /\ IF Str(res'.peerId) \in peerIdsOf(old)
              THEN /\ res'.status = 200
                   /\ \E k \in 1..Len(old) :
                        /\ old[k].peerId = Str(res'.peerId)
                        /\ new = [old EXCEPT ![k].registeredAt = Num(now)]
              ELSE /\ res'.status = 404
                   /\ new = old ]_vars

\* a heartbeat for one of two members, both registered earlier: that
\* member's registeredAt alone is the time of the request
C15_Witness ==
  /\ res.op = "heartbeat" /\ res.status = 200
  /\ Len(res.before) = 2
  /\ \A i \in 1..2 : res.before[i].registeredAt # Num(now)
  /\ Cardinality({i \in 1..2 : membersOf(res.hash)[i].registeredAt = Num(now)}) = 1
  /\ \E k \in 1..2 : membersOf(res.hash) = [res.before EXCEPT ![k].registeredAt = Num(now)]

\* C16: a heartbeat, answered 200 or 404, sends no connection anything.
C16_HeartbeatSendsNothing ==
  res.op = "heartbeat" => \A w \in Conns : sent[w] = <<>>

\* a heartbeat was answered 200 in a group with an open observer, which was
\* sent nothing
C16_Witness ==
  /\ res.op = "heartbeat" /\ res.status = 200
  /\ openObservers(res.hash) # {}
  /\ \A w \in openObservers(res.hash) : sent[w] = <<>>

\* the peerIds registered for the hash of the last request whose ttl was
\* over at some instant since their last register: a heartbeat after that
\* instant has not moved registeredAt in the history
expiredIds ==
  {p.peerId : p \in {registeredIn(registered, res.hash)[i] :
                       i \in {k \in 1..Len(registeredIn(registered, res.hash)) :
                                now - registeredIn(registered, res.hash)[k].registeredAt.n
                                  >= registeredIn(registered, res.hash)[k].ttl.n * 1000}}}

\* the peerIds a request's answer and pushes name
namedIds ==
  peerIdsOf(res.peers) \cup peerIdsOf(res.lines)
    \cup UNION {UNION {peerIdsOf(sent[w][k].peers) : k \in 1..Len(sent[w])} : w \in Conns}

\* C17: no discovery answer and no pushed list names a peer whose ttl was
\* over at some instant since its last register, heartbeats after that
\* instant or not.
C17_ExpiredStaysExpired ==
  namedIds \cap expiredIds = {}

\* every registration in force for a hash is within its ttl
allWithinTtl(reg, h, t) ==
  \A i \in 1..Len(registeredIn(reg, h)) :
    t - registeredIn(reg, h)[i].registeredAt.n < registeredIn(reg, h)[i].ttl.n * 1000

notified ==
  /\ res.status = 200
  /\ \/ res.op \in {"register", "unsubscribe"}
     \/ res.op \in {"discovery", "ndjson"} /\ Len(res.peers) + Len(res.lines) < Len(res.before)

\* C19: a register, an unsubscribe or a pruning discovery hands every open
\* observer of its group one push, whatever the state of the other
\* observers of the group: one that is closing is passed over and the
\* others are still sent to, each the same message, and the request is
\* answered 200.  A send that fails later does so after the handler, when
\* the socket closes.
C19_FanoutIsolated ==
  (res.op \in {"register", "unsubscribe", "discovery", "ndjson"} /\ res.status # 400) =>
    /\ res.status = 200
    /\ notified =>
         /\ \A w \in openObservers(res.hash) : Len(sent[w]) = 1 /\ sent[w][1].type = "peers"
         /\ \A w \in Conns \ openObservers(res.hash) : sent[w] = <<>>
         /\ \A v, w \in openObservers(res.hash) : sent[v] = sent[w]

\* a group has two observers, one of them closing, and a handler that
\* notifies sent the push to the other alone and answered 200
C19_Witness ==
  /\ notified
  /\ res.hash \in DOMAIN hashSubscriptions
  /\ hashSubscriptions[res.hash] = Conns
  /\ \E w \in Conns :
       /\ conn[w].readyState = "CLOSING" /\ sent[w] = <<>>
       /\ \A v \in Conns \ {w} : conn[v].readyState = "OPEN" /\ Len(sent[v]) = 1

\* C20: the NDJSON discovery does what the JSON discovery of the same hash
\* does from the same state at the same instant: its lines are the peers of
\* the JSON answer in the same order, the store after it is the store after
\* the JSON discovery (written back when a member was pruned, else left),
\* and every connection is sent what the JSON discovery sends it; both
\* answer 200.
C20_NdjsonEqualsJson ==
  [][res'.op = "ndjson" =>
       /\ res'.lines = jsonPeers(filterActivePeers(membersOf(res'.hash), now))
       /\ peerCache' = discoveryCache(peerCache, positionalMaxAge, res'.hash, now)
       /\ sent' = discoverySent(peerCache, positionalMaxAge, hashSubscriptions, conn, res'.hash, now)
       /\ res'.status = 200
       /\ now' = now /\ registered' = registered /\ hashSubscriptions' = hashSubscriptions]_vars

\* an NDJSON discovery read two members, one of them expired, wrote the
\* other line alone, wrote the group back and pushed to an open observer
C20_Witness ==
  /\ res.op = "ndjson"
  /\ Len(res.before) = 2
  /\ Len(res.lines) = 1
  /\ res.hash \in DOMAIN peerCache
  /\ peerCache[res.hash].now = now
  /\ Len(peerCache[res.hash].value) = 1
  /\ \E w \in openObservers(res.hash) : Len(sent[w]) = 1

====
